---- MODULE Spec2Model ----
(***************************************************************************)
(* Model of app.py: schema extraction from a metadata document, synthetic  *)
(* record generation into files, zip archiving, and the /generate request  *)
(* handler that drives them.                                               *)
(*                                                                         *)
(* Python strings are sequences of one-character strings, so that          *)
(* str.upper, os.path.join, os.path.relpath and f-string formatting are    *)
(* computed character by character as the library computes them.           *)
(***************************************************************************)
EXTENDS Integers, Sequences, FiniteSets, TLC

\* ------------------------------------------------------------------------
\* Strings and the os.path functions the program calls (posixpath)
\* ------------------------------------------------------------------------

LowerLetters == <<"a","b","c","d","e","f","g","h","i","j","k","l","m",
                  "n","o","p","q","r","s","t","u","v","w","x","y","z">>

UpperLetters == <<"A","B","C","D","E","F","G","H","I","J","K","L","M",
                  "N","O","P","Q","R","S","T","U","V","W","X","Y","Z">>

\* str.upper on one character
UpperChar(c) ==
    IF \E k \in 1..Len(LowerLetters) : LowerLetters[k] = c
    THEN UpperLetters[CHOOSE k \in 1..Len(LowerLetters) : LowerLetters[k] = c]
    ELSE c

\* str.upper
Upper(s) == [k \in 1..Len(s) |-> UpperChar(s[k])]

\* str.startswith
StartsWith(s, p) == Len(s) >= Len(p) /\ SubSeq(s, 1, Len(p)) = p

\* str.endswith
EndsWith(s, p) == Len(s) >= Len(p) /\ SubSeq(s, Len(s) - Len(p) + 1, Len(s)) = p

Digits == <<"0","1","2","3","4","5","6","7","8","9">>

\* str(n) for an integer n >= 0
RECURSIVE IntToStr(_)
IntToStr(n) ==
    IF n < 10 THEN <<Digits[n + 1]>>
    ELSE IntToStr(n \div 10) \o <<Digits[(n % 10) + 1]>>

\* os.path.join(a, b)
PathJoin(a, b) ==
    IF StartsWith(b, <<"/">>) THEN b
    ELSE IF a = <<>> \/ EndsWith(a, <<"/">>) THEN a \o b
    ELSE a \o <<"/">> \o b

\* str.split('/'): the components between separators, empty ones included
RECURSIVE SplitSlash(_)
SplitSlash(s) ==
    IF \A k \in 1..Len(s) : s[k] # "/" THEN <<s>>
    ELSE LET k == CHOOSE j \in 1..Len(s) :
                      s[j] = "/" /\ \A h \in 1..(j - 1) : s[h] # "/"
         IN <<SubSeq(s, 1, k - 1)>> \o SplitSlash(SubSeq(s, k + 1, Len(s)))

\* '/'.join(comps)
RECURSIVE JoinSlash(_)
JoinSlash(comps) ==
    IF comps = <<>> THEN <<>>
    ELSE IF Len(comps) = 1 THEN comps[1]
    ELSE comps[1] \o <<"/">> \o JoinSlash(Tail(comps))

\* the loop of os.path.normpath over the components
RECURSIVE NormComps(_, _, _)
NormComps(comps, new_comps, initial_slashes) ==
    IF comps = <<>> THEN new_comps
    ELSE LET comp == Head(comps) IN
         IF comp = <<>> \/ comp = <<".">>
         THEN NormComps(Tail(comps), new_comps, initial_slashes)
         ELSE IF comp # <<".", ".">>
                 \/ (initial_slashes = 0 /\ new_comps = <<>>)
                 \/ (new_comps # <<>> /\ new_comps[Len(new_comps)] = <<".", ".">>)
         THEN NormComps(Tail(comps), Append(new_comps, comp), initial_slashes)
         ELSE IF new_comps # <<>>
         THEN NormComps(Tail(comps), SubSeq(new_comps, 1, Len(new_comps) - 1),
                        initial_slashes)
         ELSE NormComps(Tail(comps), new_comps, initial_slashes)

\* os.path.normpath
Normpath(path) ==
    IF path = <<>> THEN <<".">>
    ELSE LET initial_slashes ==
                 IF ~StartsWith(path, <<"/">>) THEN 0
                 ELSE IF StartsWith(path, <<"/", "/">>)
                         /\ ~StartsWith(path, <<"/", "/", "/">>) THEN 2
                 ELSE 1
             body == JoinSlash(NormComps(SplitSlash(path), <<>>, initial_slashes))
             res == [k \in 1..initial_slashes |-> "/"] \o body
         IN IF res = <<>> THEN <<".">> ELSE res

\* os.path.abspath under the working directory cwd
Abspath(path, cwd) ==
    IF StartsWith(path, <<"/">>) THEN Normpath(path)
    ELSE Normpath(PathJoin(cwd, path))

\* [x for x in s.split('/') if x]
NonEmptyComps(s) == SelectSeq(SplitSlash(s), LAMBDA x : x # <<>>)

\* len(os.path.commonprefix([a, b])) on two component lists
RECURSIVE CommonLen(_, _)
CommonLen(a, b) ==
    IF a = <<>> \/ b = <<>> \/ Head(a) # Head(b) THEN 0
    ELSE 1 + CommonLen(Tail(a), Tail(b))

\* os.path.relpath(path, start) under the working directory cwd (path non-empty)
Relpath(path, start, cwd) ==
    LET start_list == NonEmptyComps(Abspath(start, cwd))
        path_list == NonEmptyComps(Abspath(path, cwd))
        i == CommonLen(start_list, path_list)
        rel_list == [k \in 1..(Len(start_list) - i) |-> <<".", ".">>]
                      \o SubSeq(path_list, i + 1, Len(path_list))
    IN IF rel_list = <<>> THEN <<".">> ELSE JoinSlash(rel_list)

\* os.path.dirname
Dirname(path) ==
    LET idx == {k \in 1..Len(path) : path[k] = "/"}
        i == IF idx = {} THEN 0 ELSE CHOOSE k \in idx : \A h \in idx : h <= k
        head == SubSeq(path, 1, i)
    IN IF head # <<>> /\ \E k \in 1..Len(head) : head[k] # "/"
       THEN LET last == CHOOSE k \in 1..Len(head) :
                            head[k] # "/" /\ \A h \in (k + 1)..Len(head) : head[h] = "/"
            IN SubSeq(head, 1, last)
       ELSE head

\* os.path.basename
Basename(path) ==
    LET idx == {k \in 1..Len(path) : path[k] = "/"}
        i == IF idx = {} THEN 0 ELSE CHOOSE k \in idx : \A h \in idx : h <= k
    IN SubSeq(path, i + 1, Len(path))

\* the strip of leading separators in ZipInfo.from_file
RECURSIVE StripLeadingSlashes(_)
StripLeadingSlashes(s) ==
    IF s # <<>> /\ Head(s) = "/" THEN StripLeadingSlashes(Tail(s)) ELSE s

\* the name ZipFile.write stores for arcname (ZipInfo.from_file)
ZipStoredName(arcname) == StripLeadingSlashes(Normpath(arcname))


\* ------------------------------------------------------------------------
\* Parsed JSON values.  t is the kind of the value ("absent": the key is
\* missing from its mapping; "list": a non-empty list, unhashable); s is the
\* text of a string, or the decimal text of a number.
\* ------------------------------------------------------------------------

Absent == [t |-> "absent", s |-> <<>>]

Null == [t |-> "null", s |-> <<>>]

ListV == [t |-> "list", s |-> <<>>]

StrV(s) == [t |-> "str", s |-> s]

NumV(s) == [t |-> "num", s |-> s]

\* dict.get(key, default) on the value v stored under key
Get(v, default) == IF v.t = "absent" THEN default ELSE v

\* truth value of a Python object
Truthy(v) ==
    CASE v.t = "str" -> v.s # <<>>
      [] v.t = "num" -> v.s # <<"0">>
      [] v.t = "list" -> TRUE
      [] OTHER -> FALSE

\* hashable: usable as a dict key
Hashable(v) == v.t # "list"

\* ------------------------------------------------------------------------
\* extract_schema_from_json
\* ------------------------------------------------------------------------

S_operation == <<"o","p","e","r","a","t","i","o","n">>

S_key == <<"k","e","y">>

unknown_table == <<"u","n","k","n","o","w","n","_","t","a","b","l","e">>

default_entity == <<"d","e","f","a","u","l","t","_","e","n","t","i","t","y">>

\* datatype_mapping: the dict of upper-case type tags
datatype_mapping ==
    { [k |-> <<"S","T","R","I","N","G">>, v |-> "string"],
      [k |-> <<"I","N","T","E","G","E","R">>, v |-> "integer"],
      [k |-> <<"I","N","T">>, v |-> "integer"],
      [k |-> <<"T","I","M","E","S","T","A","M","P">>, v |-> "timestamp"],
      [k |-> <<"D","A","T","E","T","I","M","E">>, v |-> "timestamp"] }

\* datatype_mapping.get(key, default)
MappingGet(key, default) ==
    IF \E e \in datatype_mapping : e.k = key
    THEN (CHOOSE e \in datatype_mapping : e.k = key).v
    ELSE default

\* v.upper() raises AttributeError unless v is a string
CanUpper(v) == v.t = "str"

\* the lookup with logicalDatatype consulted before datatype
ResolveDatatypeLogicalFirst(attr) ==
    MappingGet(Upper(Get(attr.logicalDatatype, StrV(<<>>)).s),
               MappingGet(Upper(Get(attr.datatype, StrV(<<>>)).s), "string"))

\* the lookup of lines 43-46; both arguments are evaluated before the outer get
ResolveDatatype(attr) ==
    MappingGet(Upper(Get(attr.datatype, StrV(<<>>)).s),
               MappingGet(Upper(Get(attr.logicalDatatype, StrV(<<>>)).s), "string"))

\* one pass of the loop body raises: attr has no .get, a tag has no .upper,
\* or the name is truthy and unhashable
AttrRaises(attr) ==
    \/ ~attr.isMap
    \/ ~CanUpper(Get(attr.datatype, StrV(<<>>)))
    \/ ~CanUpper(Get(attr.logicalDatatype, StrV(<<>>)))
    \/ (Truthy(Get(attr.name, StrV(<<>>))) /\ ~Hashable(attr.name))

\* d[k] = v on an insertion-ordered dict held as a sequence of (name, type):
\* an existing key keeps its position
DictSet(d, k, v) ==
    IF \E i \in 1..Len(d) : d[i].name = k
    THEN [i \in 1..Len(d) |-> IF d[i].name = k THEN [name |-> k, type |-> v] ELSE d[i]]
    ELSE Append(d, [name |-> k, type |-> v])

\* the for loop over json_data['attributes'] (no iteration raises)
RECURSIVE ProcessAttributes(_, _)
ProcessAttributes(attrs, fields) ==
    IF attrs = <<>> THEN fields
    ELSE LET attr == Head(attrs)
             attr_name == Get(attr.name, StrV(<<>>))
             datatype == ResolveDatatype(attr)
         IN ProcessAttributes(Tail(attrs),
                IF Truthy(attr_name) THEN DictSet(fields, attr_name, datatype)
                ELSE fields)

\* line 22: the table name
TableName(doc) == Get(doc.schemaKey, Get(doc.name, StrV(unknown_table)))

\* line 23: the entity key
EntityKey(doc) == Get(doc.entityKey, StrV(default_entity))

ExtractRaised ==
    [raised |-> TRUE, table_name |-> Null, entity_key |-> Null, fields |-> <<>>]

\* extract_schema_from_json(json_data): the returned tuple, or raised
extract_schema_from_json(doc) ==
    IF ~doc.isMap THEN ExtractRaised
    ELSE
    LET table_name == TableName(doc)
        entity_key == EntityKey(doc)
        items == IF doc.attributes.t = "list" THEN doc.attributes.items ELSE <<>>
    IN IF ~Hashable(table_name) THEN ExtractRaised
       ELSE IF \E i \in 1..Len(items) : AttrRaises(items[i]) THEN ExtractRaised
       ELSE LET found == ProcessAttributes(items, <<>>)
                keyed == IF found = <<>>
                         THEN DictSet(found, StrV(S_key), "string")
                         ELSE found
            IN [raised |-> FALSE,
                table_name |-> table_name,
                entity_key |-> entity_key,
                fields |-> DictSet(keyed, StrV(S_operation), "operation")]

\* ------------------------------------------------------------------------
\* The file system, the random generator and the clock
\* ------------------------------------------------------------------------

\* every directory on the way to the absolute path p, p included
AncestorsOrSelf(p) ==
    LET comps == NonEmptyComps(p)
    IN {<<"/">> \o JoinSlash(SubSeq(comps, 1, k)) : k \in 0..Len(comps)}

FilePaths(fs) == {f.path : f \in fs.files}

\* os.makedirs(path, exist_ok=True) fails when a component is a regular file
MakedirsRaises(fs, path, cwd) ==
    path = <<>> \/ AncestorsOrSelf(Abspath(path, cwd)) \cap FilePaths(fs) # {}

\* os.makedirs(path, exist_ok=True)
Makedirs(fs, path, cwd) ==
    [fs EXCEPT !.dirs = @ \cup AncestorsOrSelf(Abspath(path, cwd))]

\* open(path, 'w') fails when the parent is no directory or path is one
OpenWriteRaises(fs, path, cwd) ==
    \/ Dirname(Abspath(path, cwd)) \notin fs.dirs
    \/ Abspath(path, cwd) \in fs.dirs

\* open(path, 'w') and json.dump(data, f): the file is created or truncated
WriteFile(fs, path, cwd, data) ==
    [fs EXCEPT !.files = {f \in @ : f.path # Abspath(path, cwd)}
                           \cup {[path |-> Abspath(path, cwd), data |-> data]}]

\* number of states of the process-wide random generator
RngStates == 2

\* the generator's state after one draw
RngNext(rng) == (rng + 1) % RngStates

\* random.randint(1, 100) in generator state rng
RandInt(rng) == 1 + ((rng * 37 + 11) % 100)

Letters == LowerLetters \o UpperLetters

\* random.choices(letters, k=8) in generator state rng
RandLetters(rng) == [k \in 1..8 |-> Letters[1 + ((rng * 7 + k * 11) % 52)]]

\* latest reading of the clock, in milliseconds
MaxNow == 2

\* int(time.time() * 1000): the readings a call may get
Times == 1..MaxNow

\* ------------------------------------------------------------------------
\* generate_random_transaction
\* ------------------------------------------------------------------------

LowerChar(c) ==
    IF \E k \in 1..Len(UpperLetters) : UpperLetters[k] = c
    THEN LowerLetters[CHOOSE k \in 1..Len(UpperLetters) : UpperLetters[k] = c]
    ELSE c

\* str.lower
Lower(s) == [k \in 1..Len(s) |-> LowerChar(s[k])]

\* str(v) as an f-string formats v
Format(v) ==
    CASE v.t = "str" -> v.s
      [] v.t = "num" -> v.s
      [] v.t = "null" -> <<"N","o","n","e">>

VersionNames ==
    { <<"s","y","s","_","c","r","e","a","t","i","o","n","_","d","a","t","e">>,
      S_key,
      <<"c","r","e","a","t","e","d","b","y">> }

S_customer_id == <<"c","u","s","t","o","m","e","r","_","i","d">>

\* the fixed operation descriptor of lines 92-96
Upsert == [t |-> "upsert", s |-> <<>>]

\* attribute_name.lower() raises unless the name is a string
FieldRaises(field) ==
    field.type \in {"string", "integer"} /\ field.name.t # "str"

\* the value of one field of record i (0-based) in generator state rng
FieldValue(field, i, rng, now) ==
    CASE field.type = "string" ->
            IF Lower(field.name.s) \in VersionNames
            THEN StrV(<<"V">> \o IntToStr(RandInt(rng)))
            ELSE StrV(RandLetters(rng))
      [] field.type = "integer" ->
            IF Lower(field.name.s) = S_customer_id
            THEN StrV(IntToStr(i + 1))
            ELSE StrV(IntToStr(RandInt(rng)))
      [] field.type = "timestamp" -> NumV(IntToStr(now))
      [] field.type = "operation" -> Upsert
      [] OTHER -> Null

\* the field draws from the random generator (customer_id does not)
FieldDraws(field) ==
    \/ field.type = "string"
    \/ (field.type = "integer" /\ Lower(field.name.s) # S_customer_id)

\* the loop of lines 81-98 from field k on: [raised, record, rng]
RECURSIVE BuildRecord(_, _, _, _, _, _)
BuildRecord(attributes, k, i, rng, now, record) ==
    IF k > Len(attributes) THEN [raised |-> FALSE, record |-> record, rng |-> rng]
    ELSE IF FieldRaises(attributes[k])
    THEN [raised |-> TRUE, record |-> record, rng |-> rng]
    ELSE BuildRecord(attributes, k + 1, i,
                     IF FieldDraws(attributes[k]) THEN RngNext(rng) ELSE rng,
                     now,
                     Append(record, [name |-> attributes[k].name,
                                    value |-> FieldValue(attributes[k], i, rng, now)]))

\* line 103: the file name of record i (0-based)
FileName(schema_key, entity_key, i) ==
    Format(schema_key) \o <<"_">> \o Format(entity_key)
        \o <<"_","f","i","l","e">> \o IntToStr(i + 1) \o <<".","j","s","o","n">>

\* the loop of lines 72-110 from record i on, for one table;
\* st = [raised, files, fs, rng]
RECURSIVE WriteRecords(_, _, _, _, _, _, _, _, _)
WriteRecords(table, table_dir, i, count, schema_key, entity_key, now, cwd, st) ==
    IF i >= count THEN st
    ELSE LET transactionId == <<"t","r","a","n","s","a","c","t","i","o","n">>
                                 \o IntToStr(RandInt(st.rng))
             built == BuildRecord(table.attributes, 1, i, RngNext(st.rng), now, <<>>)
             data == [startTransaction |-> TRUE,
                      transactionId |-> transactionId,
                      endTransaction |-> TRUE,
                      repeatedMessages |-> [table |-> table.name,
                                            records |-> <<built.record>>]]
             filename == FileName(schema_key, entity_key, i)
             file_path == PathJoin(table_dir, filename)
         IN IF built.raised \/ OpenWriteRaises(st.fs, file_path, cwd)
            THEN [st EXCEPT !.raised = TRUE, !.rng = built.rng]
            ELSE WriteRecords(table, table_dir, i + 1, count, schema_key, entity_key,
                              now, cwd,
                              [raised |-> FALSE,
                               files |-> Append(st.files, file_path),
                               fs |-> WriteFile(st.fs, file_path, cwd, data),
                               rng |-> built.rng])

\* the loop of lines 68-110 from table t on
RECURSIVE WriteTables(_, _, _, _, _, _, _, _, _)
WriteTables(schema, t, count, base_dir, schema_key, entity_key, now, cwd, st) ==
    IF t > Len(schema) \/ st.raised THEN st
    ELSE IF schema[t].name.t # "str"
            \/ MakedirsRaises(st.fs, PathJoin(base_dir, schema[t].name.s), cwd)
    THEN [st EXCEPT !.raised = TRUE]
    ELSE LET table_dir == PathJoin(base_dir, schema[t].name.s)
         IN WriteTables(schema, t + 1, count, base_dir, schema_key, entity_key, now, cwd,
                        WriteRecords(schema[t], table_dir, 0, count, schema_key,
                                     entity_key, now, cwd,
                                     [st EXCEPT !.fs = Makedirs(@, table_dir, cwd)]))

\* generate_random_transaction(schema, count, base_dir, schema_key, entity_key)
\* run on file system fs in generator state rng at clock reading now:
\* [raised, files (the returned list), fs, rng]
generate_random_transaction(schema, count, base_dir, schema_key, entity_key, fs, rng, now, cwd) ==
    IF MakedirsRaises(fs, base_dir, cwd)
    THEN [raised |-> TRUE, files |-> <<>>, fs |-> fs, rng |-> rng]
    ELSE WriteTables(schema, 1, count, base_dir, schema_key, entity_key, now, cwd,
                     [raised |-> FALSE, files |-> <<>>,
                      fs |-> Makedirs(fs, base_dir, cwd), rng |-> rng])

\* ------------------------------------------------------------------------
\* create_zip_archive
\* ------------------------------------------------------------------------

S_downloads == <<"d","o","w","n","l","o","a","d","s">>

S_archive_name ==
    <<"g","e","n","e","r","a","t","e","d","_","d","a","t","a",".","z","i","p">>

\* line 136: the archive name of a file
Arcname(file, cwd) == Relpath(file, <<"d","a","t","a">>, cwd)

\* the loop of lines 134-137 from file k on: [raised, entries]
RECURSIVE ZipWriteAll(_, _, _, _, _)
ZipWriteAll(files, k, fs, cwd, entries) ==
    IF k > Len(files) THEN [raised |-> FALSE, entries |-> entries]
    ELSE IF Abspath(files[k], cwd) \notin FilePaths(fs)
    THEN [raised |-> TRUE, entries |-> entries]
    ELSE ZipWriteAll(files, k + 1, fs, cwd,
             Append(entries,
                    [name |-> ZipStoredName(Arcname(files[k], cwd)),
                     data |-> (CHOOSE f \in fs.files :
                                   f.path = Abspath(files[k], cwd)).data]))

\* create_zip_archive(files): [raised, zip_path, entries, fs]
create_zip_archive(files, fs, cwd) ==
    IF MakedirsRaises(fs, S_downloads, cwd)
    THEN [raised |-> TRUE, zip_path |-> <<>>, entries |-> <<>>, fs |-> fs]
    ELSE LET w == ZipWriteAll(files, 1, fs, cwd, <<>>)
         IN [raised |-> w.raised,
             zip_path |-> PathJoin(S_downloads, S_archive_name),
             entries |-> w.entries,
             fs |-> Makedirs(fs, S_downloads, cwd)]

\* ------------------------------------------------------------------------
\* generate: the steps of the request handler
\* ------------------------------------------------------------------------

unknown_schema == <<"u","n","k","n","o","w","n","_","s","c","h","e","m","a">>

output_dir == <<"/","t","m","p","/","d","a","t","a">>

\* lines 176-188 and 195-207: load one document, extract its schema and
\* generate its files: [failed, error, files, fs, rng]
ProcessDocument(content, count, fs, rng, now, cwd) ==
    IF content.kind # "json"
    THEN [failed |-> TRUE, error |-> "JSONDecodeError", files |-> <<>>,
          fs |-> fs, rng |-> rng]
    ELSE LET ext == extract_schema_from_json(content.doc) IN
         IF ext.raised
         THEN [failed |-> TRUE, error |-> "Exception", files |-> <<>>,
               fs |-> fs, rng |-> rng]
         ELSE LET schema == <<[name |-> ext.table_name, attributes |-> ext.fields]>>
                  schema_key == Get(content.doc.schemaKey, StrV(unknown_schema))
                  g == generate_random_transaction(schema, count, output_dir,
                           schema_key, ext.entity_key, fs, rng, now, cwd)
              IN [failed |-> g.raised,
                  error |-> IF g.raised THEN "Exception" ELSE "",
                  files |-> IF g.raised THEN <<>> ELSE g.files,
                  fs |-> g.fs, rng |-> g.rng]

\* a failure that ends the walk instead of being skipped
WalkAbortOnFailure(rest) == {}

\* lines 190-192: the files still to walk after a contained document failed
WalkAfterFailure(rest) == rest

\* line 172: file.lower().endswith('.json')
IsJsonName(name) == EndsWith(Lower(name), <<".","j","s","o","n">>)

\* line 166: schema_file.filename.lower().endswith('.zip')
IsZipName(name) == EndsWith(Lower(name), <<".","z","i","p">>)

\* line 211: shutil is not among the imports of lines 1-7, so the name lookup
\* raises NameError
RmtreeRaises == TRUE

\* ------------------------------------------------------------------------
\* Inputs of the extraction check: metadata documents
\* ------------------------------------------------------------------------

\* longest attributes list of an input document
MaxAttrs == 2

SchemaKeyVals == {Absent, StrV(<<>>), StrV(<<"T">>), Null, ListV}

NameVals == {Absent, StrV(<<"N">>), StrV(<<>>)}

EntityKeyVals == {Absent, StrV(<<"E">>), Null}

AttrNameVals == {Absent, StrV(<<>>), StrV(<<"a">>), StrV(S_operation), Null, ListV}

\* (datatype, logicalDatatype) of an attribute descriptor
TagPairs ==
    { <<Absent, Absent>>,
      <<StrV(<<"i","n","t">>), Absent>>,
      <<StrV(<<"I","N","T","E","G","E","R">>), StrV(<<"d","a","t","e","t","i","m","e">>)>>,
      <<StrV(<<"v","a","r","c","h","a","r">>), StrV(<<"T","i","m","e","s","t","a","m","p">>)>>,
      <<StrV(<<"v","a","r","c","h","a","r">>), StrV(<<"b","l","o","b">>)>>,
      <<Absent, StrV(<<"S","t","r","i","n","g">>)>>,
      <<StrV(<<>>), StrV(<<"I","n","t">>)>>,
      <<StrV(<<"D","A","T","E","T","I","M","E">>), Null>>,
      <<Null, StrV(<<"I","N","T">>)>> }

\* pairs combined with every attribute name
CoreTagPairs ==
    { <<StrV(<<"i","n","t">>), Absent>>,
      <<StrV(<<"v","a","r","c","h","a","r">>), StrV(<<"T","i","m","e","s","t","a","m","p">>)>>,
      <<StrV(<<"v","a","r","c","h","a","r">>), StrV(<<"b","l","o","b">>)>> }

\* an entry of attributes that is not a mapping (a string, a number, null)
NonMapAttr ==
    [isMap |-> FALSE, name |-> Absent, datatype |-> Absent, logicalDatatype |-> Absent]

Attr(n, tags) ==
    [isMap |-> TRUE, name |-> n, datatype |-> tags[1], logicalDatatype |-> tags[2]]

AttrVals ==
    {NonMapAttr}
      \cup {Attr(StrV(<<"a">>), tags) : tags \in TagPairs}
      \cup {Attr(n, tags) : n \in AttrNameVals, tags \in CoreTagPairs}

AttrLists == UNION {[1..n -> AttrVals] : n \in 0..MaxAttrs}

\* attributes absent, or present and not a list (null, a string, a mapping)
NoAttributes == {[t |-> "absent", items |-> <<>>], [t |-> "other", items |-> <<>>]}

PlainAttr ==
    Attr(StrV(<<"a">>), <<StrV(<<"i","n","t">>), Absent>>)

\* documents that vary the top-level fields
TopLevelDocs ==
    { [isMap |-> TRUE, schemaKey |-> sk, name |-> nm, entityKey |-> ek, attributes |-> at] :
        sk \in SchemaKeyVals, nm \in NameVals, ek \in EntityKeyVals,
        at \in NoAttributes \cup {[t |-> "list", items |-> <<>>],
                                  [t |-> "list", items |-> <<PlainAttr>>]} }

\* documents that vary the attributes list
AttributeDocs ==
    { [isMap |-> TRUE, schemaKey |-> sk, name |-> Absent, entityKey |-> StrV(<<"E">>),
       attributes |-> [t |-> "list", items |-> items]] :
        sk \in {Absent, StrV(<<"T">>)}, items \in AttrLists }

\* a parsed value that is not a mapping; stands where no document is held
NonMapDoc ==
    [isMap |-> FALSE, schemaKey |-> Absent, name |-> Absent, entityKey |-> Absent,
     attributes |-> [t |-> "absent", items |-> <<>>]]

Docs == TopLevelDocs \cup AttributeDocs

\* ------------------------------------------------------------------------
\* Inputs of the generation check: schemas and call arguments
\* ------------------------------------------------------------------------

\* most tables of an input schema
MaxTables == 2

\* largest record count of a call or a request
MaxCount == 2

S_data == <<"d","a","t","a">>

\* working directories the server may be started in
Cwds == { <<"/","t","m","p">>, <<"/","v","a","r","/","t","a","s","k">> }

Field(n, ty) == [name |-> StrV(n), type |-> ty]

FieldMaps ==
    { <<Field(S_key, "string"), Field(S_operation, "operation")>>,
      <<Field(S_customer_id, "integer"), Field(<<"n","a","m","e">>, "string"),
        Field(<<"t","s">>, "timestamp"), Field(S_operation, "operation")>> }

GenTableNames == {StrV(<<"T">>), StrV(<<"U">>), StrV(<<>>), StrV(<<"/","a">>)}

Tables == {[name |-> n, attributes |-> fm] : n \in GenTableNames, fm \in FieldMaps}

\* a dict of tables: no name twice
Schemas ==
    {sc \in UNION {[1..n -> Tables] : n \in 0..MaxTables} :
        \A i, j \in 1..Len(sc) : i # j => sc[i].name # sc[j].name}

GenSchemaKeys == {StrV(<<"S">>), StrV(<<"x","/","y">>)}

GenEntityKeys == {StrV(<<"E">>), StrV(default_entity)}

GenBaseDirs == {output_dir, S_data}

\* the file system at start: the working directory and /tmp exist
InitialFs(cwd) ==
    [dirs |-> AncestorsOrSelf(cwd) \cup AncestorsOrSelf(<<"/","t","m","p">>),
     files |-> {}]

\* ------------------------------------------------------------------------
\* Inputs of the request handler: uploads
\* ------------------------------------------------------------------------

\* requests served in one run of the server
MaxRequests == 2

\* largest count parameter of a request
MaxRequestCount == 1

DocOf(sk, nm, ek, items) ==
    [isMap |-> TRUE, schemaKey |-> sk, name |-> nm, entityKey |-> ek,
     attributes |-> [t |-> "list", items |-> items]]

\* {"schemaKey": "T", "entityKey": "E",
\*  "attributes": [{"name": "customer_id", "datatype": "INTEGER"}]}
DocT ==
    DocOf(StrV(<<"T">>), Absent, StrV(<<"E">>),
          <<Attr(StrV(S_customer_id), <<StrV(<<"I","N","T","E","G","E","R">>), Absent>>)>>)

\* {"schemaKey": "T", "entityKey": "E", "attributes": []}
DocT2 == DocOf(StrV(<<"T">>), Absent, StrV(<<"E">>), <<>>)

\* {"name": "U", "attributes": []}
DocU == DocOf(Absent, StrV(<<"U">>), Absent, <<>>)

\* {"schemaKey": "V", "attributes": [null]}: extraction raises
DocBadAttr == DocOf(StrV(<<"V">>), Absent, Absent, <<NonMapAttr>>)

\* {"schemaKey": null, "attributes": []}: materialization raises
DocNullKey == DocOf(Null, Absent, Absent, <<>>)

JsonFile(doc) == [kind |-> "json", doc |-> doc]

\* a file that is not parseable as JSON
Garbage == [kind |-> "garbage", doc |-> NonMapDoc]

\* the bytes of an uploaded zip, as stored in the temp directory
ZipBlob == [kind |-> "zip", doc |-> NonMapDoc]

Contents ==
    {JsonFile(DocT), JsonFile(DocT2), JsonFile(DocU), JsonFile(DocBadAttr),
     JsonFile(DocNullKey), Garbage}

MemberNames == { <<"a",".","j","s","o","n">>, <<"B",".","J","S","O","N">> }

SingleNames == { <<"a",".","j","s","o","n">> }

S_up_zip == <<"u","p",".","z","i","p">>

\* the members of a container: name -> content, as a set of [name, content]
MemberSets ==
    UNION { {{[name |-> n, content |-> f[n]] : n \in ns} : f \in [ns -> Contents]} :
            ns \in SUBSET MemberNames }

NoRequest == [kind |-> "none", filename |-> <<>>, members |-> {}, count |-> 0]

NoResponse == [status |-> "none", error |-> "", message |-> 0, download_link |-> <<>>]

ErrorResponse(e) ==
    [status |-> "error", error |-> e, message |-> 0, download_link |-> <<>>]

\* ------------------------------------------------------------------------
\* State
\* ------------------------------------------------------------------------

VARIABLES
    json_data,   \* the argument of extract_schema_from_json
    extracted,   \* its outcome: [done, res]
    gen_args,    \* the arguments of a call of generate_random_transaction
    gen_ret,     \* its outcome: [done, raised, files]
    fs,          \* the file system: [dirs, files]
    rng,         \* the state of the random generator
    cwd,         \* the working directory of the process
    pc,          \* where the request handler stands
    req,         \* the request being served (or last served)
    temp_files,  \* the files of tmp_schema_files: set of [name, content]
    walk,        \* the .json files os.walk has still to yield
    all_generated_files,  \* the list of line 164
    outcomes,    \* per walked document: [file, failed, files], in order
    archive,     \* the entries of downloads/generated_data.zip
    response,    \* the response to the last request
    served       \* requests answered so far

extractVars == <<json_data, extracted>>

genVars == <<gen_args, gen_ret>>

envVars == <<fs, rng, cwd>>

driverVars ==
    <<pc, req, temp_files, walk, all_generated_files, outcomes, archive, response, served>>

vars ==
    <<json_data, extracted, gen_args, gen_ret, fs, rng, cwd, pc, req, temp_files,
      walk, all_generated_files, outcomes, archive, response, served>>

NotExtracted == [done |-> FALSE, res |-> ExtractRaised]

NoGenArgs ==
    [schema |-> <<>>, count |-> 0, base_dir |-> S_data,
     schema_key |-> Null, entity_key |-> Null]

NotGenerated == [done |-> FALSE, raised |-> FALSE, files |-> <<>>]

InitEnv ==
    /\ cwd \in Cwds
    /\ fs = InitialFs(cwd)
    /\ rng \in 0..(RngStates - 1)

InitDriver ==
    /\ pc = "idle"
    /\ req = NoRequest
    /\ temp_files = {}
    /\ walk = {}
    /\ all_generated_files = <<>>
    /\ outcomes = <<>>
    /\ archive = <<>>
    /\ response = NoResponse
    /\ served = 0

\* ------------------------------------------------------------------------
\* SpecExtract: extract_schema_from_json applied to every input document
\* ------------------------------------------------------------------------

InitExtract ==
    /\ json_data \in Docs
    /\ extracted = NotExtracted
    /\ gen_args = NoGenArgs
    /\ gen_ret = NotGenerated
    /\ cwd = <<"/","t","m","p">>
    /\ fs = InitialFs(cwd)
    /\ rng = 0
    /\ InitDriver

\* one call of extract_schema_from_json(json_data)
Extract ==
    /\ ~extracted.done
    /\ extracted' = [done |-> TRUE, res |-> extract_schema_from_json(json_data)]
    /\ UNCHANGED <<json_data, genVars, envVars, driverVars>>

NextExtract == Extract

SpecExtract == InitExtract /\ [][NextExtract]_vars

\* ------------------------------------------------------------------------
\* SpecGen: generate_random_transaction applied to every input call
\* ------------------------------------------------------------------------

InitGen ==
    /\ InitEnv
    /\ InitDriver
    /\ json_data = NonMapDoc
    /\ extracted = NotExtracted
    /\ gen_args \in [schema : Schemas, count : 0..MaxCount, base_dir : GenBaseDirs,
                     schema_key : GenSchemaKeys, entity_key : GenEntityKeys]
    /\ gen_ret = NotGenerated

\* one call of generate_random_transaction(schema, count, base_dir, schema_key,
\* entity_key)
Generate ==
    /\ ~gen_ret.done
    /\ \E now \in Times :
          \E r \in {generate_random_transaction(gen_args.schema, gen_args.count,
                       gen_args.base_dir, gen_args.schema_key, gen_args.entity_key,
                       fs, rng, now, cwd)} :
             /\ gen_ret' = [done |-> TRUE, raised |-> r.raised,
                            files |-> IF r.raised THEN <<>> ELSE r.files]
             /\ fs' = r.fs
             /\ rng' = r.rng
    /\ UNCHANGED <<extractVars, gen_args, cwd, driverVars>>

NextGen == Generate

SpecGen == InitGen /\ [][NextGen]_vars

\* ------------------------------------------------------------------------
\* Spec: the server answering /generate requests, one at a time
\* ------------------------------------------------------------------------

Init ==
    /\ InitEnv
    /\ InitDriver
    /\ json_data = NonMapDoc
    /\ extracted = NotExtracted
    /\ gen_args = NoGenArgs
    /\ gen_ret = NotGenerated

\* schema_file.save(path): the file is created or replaced
SaveFile(files, name, content) ==
    {f \in files : f.name # name} \cup {[name |-> name, content |-> content]}

\* zip_ref.extractall(temp_dir): every member is created or replaced
ExtractAll(files, members) ==
    {f \in files : \A m \in members : m.name # f.name} \cup members

\* lines 143-144: the request carries no schema_file
NoFileUploaded ==
    /\ pc = "idle"
    /\ served < MaxRequests
    /\ req' = NoRequest
    /\ response' = ErrorResponse("No file uploaded")
    /\ served' = served + 1
    /\ UNCHANGED <<extractVars, genVars, envVars, pc, temp_files, walk,
                   all_generated_files, outcomes, archive>>

\* lines 148-149: the schema_file has an empty filename
NoSelectedFile ==
    /\ pc = "idle"
    /\ served < MaxRequests
    /\ req' = NoRequest
    /\ response' = ErrorResponse("No selected file")
    /\ served' = served + 1
    /\ UNCHANGED <<extractVars, genVars, envVars, pc, temp_files, walk,
                   all_generated_files, outcomes, archive>>

\* lines 151-164 and the else of line 194: a single document is uploaded
ReceiveSingle ==
    /\ pc = "idle"
    /\ served < MaxRequests
    /\ \E name \in SingleNames, content \in Contents, count \in 0..MaxRequestCount :
          /\ ~IsZipName(name)
          /\ req' = [kind |-> "single", filename |-> name,
                     members |-> {[name |-> name, content |-> content]},
                     count |-> count]
          /\ temp_files' = SaveFile(temp_files, name, content)
    /\ all_generated_files' = <<>>
    /\ outcomes' = <<>>
    /\ walk' = {}
    /\ response' = NoResponse
    /\ pc' = "single"
    /\ UNCHANGED <<extractVars, genVars, envVars, archive, served>>

\* lines 151-170: a container is uploaded, saved and expanded, and os.walk
\* lists the .json files now in the temp directory
ReceiveZip ==
    /\ pc = "idle"
    /\ served < MaxRequests
    /\ \E members \in MemberSets, count \in 0..MaxRequestCount :
          /\ IsZipName(S_up_zip)
          /\ req' = [kind |-> "zip", filename |-> S_up_zip, members |-> members,
                     count |-> count]
          /\ temp_files' = ExtractAll(SaveFile(temp_files, S_up_zip, ZipBlob), members)
          /\ walk' = {f.name : f \in {g \in temp_files' : IsJsonName(g.name)}}
    /\ all_generated_files' = <<>>
    /\ outcomes' = <<>>
    /\ response' = NoResponse
    /\ pc' = "walk"
    /\ UNCHANGED <<extractVars, genVars, envVars, archive, served>>

\* lines 166-168 and 221-223: the upload is named .zip and is no zip archive
ReceiveBadZip ==
    /\ pc = "idle"
    /\ served < MaxRequests
    /\ IsZipName(S_up_zip)
    /\ \E count \in 0..MaxRequestCount :
          req' = [kind |-> "badzip", filename |-> S_up_zip, members |-> {},
                  count |-> count]
    /\ temp_files' = SaveFile(temp_files, S_up_zip, Garbage)
    /\ all_generated_files' = <<>>
    /\ outcomes' = <<>>
    /\ walk' = {}
    /\ response' = ErrorResponse("Exception")
    /\ served' = served + 1
    /\ UNCHANGED <<extractVars, genVars, envVars, pc, archive>>

\* lines 171-192: one contained document is processed; a failure is caught
ProcessContained ==
    /\ pc = "walk"
    /\ \E file \in walk, now \in Times :
          \E r \in {ProcessDocument((CHOOSE f \in temp_files : f.name = file).content,
                                     req.count, fs, rng, now, cwd)} :
             /\ fs' = r.fs
             /\ rng' = r.rng
             /\ all_generated_files' =
                    IF r.failed THEN all_generated_files
                    ELSE all_generated_files \o r.files
             /\ outcomes' = Append(outcomes, [file |-> file, failed |-> r.failed,
                                              files |-> r.files])
             /\ walk' = IF r.failed THEN WalkAfterFailure(walk \ {file})
                        ELSE walk \ {file}
    /\ UNCHANGED <<extractVars, genVars, cwd, pc, req, temp_files, archive, response,
                   served>>

\* lines 195-207 and 219-223: the single document is processed; a failure
\* ends the request
ProcessSingle ==
    /\ pc = "single"
    /\ \E now \in Times :
          \E r \in {ProcessDocument(
                        (CHOOSE f \in temp_files : f.name = req.filename).content,
                        req.count, fs, rng, now, cwd)} :
             /\ fs' = r.fs
             /\ rng' = r.rng
             /\ outcomes' = Append(outcomes, [file |-> req.filename,
                                              failed |-> r.failed, files |-> r.files])
             /\ IF r.failed
                THEN /\ response' =
                          ErrorResponse(IF r.error = "JSONDecodeError"
                                        THEN "Invalid JSON format in schema file."
                                        ELSE "Exception")
                     /\ pc' = "idle"
                     /\ served' = served + 1
                     /\ UNCHANGED all_generated_files
                ELSE /\ all_generated_files' = all_generated_files \o r.files
                     /\ pc' = "archive"
                     /\ UNCHANGED <<response, served>>
    /\ UNCHANGED <<extractVars, genVars, cwd, req, temp_files, walk, archive>>

\* lines 209-223: the archive is written, the temp directory removed and the
\* request answered
Archive ==
    /\ pc = "archive" \/ (pc = "walk" /\ walk = {})
    /\ \E z \in {create_zip_archive(all_generated_files, fs, cwd)} :
          /\ fs' = z.fs
          /\ archive' = z.entries
          /\ IF z.raised
             THEN /\ response' = ErrorResponse("Exception")
                  /\ UNCHANGED temp_files
             ELSE IF RmtreeRaises
             THEN /\ response' = ErrorResponse("name 'shutil' is not defined")
                  /\ UNCHANGED temp_files
             ELSE /\ response' =
                       [status |-> "success", error |-> "",
                        message |-> Len(all_generated_files),
                        download_link |-> <<"/","d","o","w","n","l","o","a","d","/">>
                                             \o Basename(z.zip_path)]
                  /\ temp_files' = {}
    /\ pc' = "idle"
    /\ served' = served + 1
    /\ UNCHANGED <<extractVars, genVars, rng, cwd, req, walk, all_generated_files,
                   outcomes>>

Next ==
    \/ NoFileUploaded
    \/ NoSelectedFile
    \/ ReceiveSingle
    \/ ReceiveZip
    \/ ReceiveBadZip
    \/ ProcessContained
    \/ ProcessSingle
    \/ Archive

Spec == Init /\ [][Next]_vars

\* ------------------------------------------------------------------------
\* SpecBatch: the last request of a run is a container, uploaded into a temp
\* directory that holds what an earlier single-document request left there
\* ------------------------------------------------------------------------

Leftovers ==
    {{}} \cup {{[name |-> n, content |-> c]} : n \in SingleNames, c \in Contents}

InitBatch ==
    /\ InitEnv
    /\ json_data = NonMapDoc
    /\ extracted = NotExtracted
    /\ gen_args = NoGenArgs
    /\ gen_ret = NotGenerated
    /\ pc = "idle"
    /\ req = NoRequest
    /\ temp_files \in Leftovers
    /\ walk = {}
    /\ all_generated_files = <<>>
    /\ outcomes = <<>>
    /\ archive = <<>>
    /\ response = NoResponse
    /\ served = MaxRequests - 1

NextBatch ==
    \/ ReceiveZip
    \/ ProcessContained
    \/ Archive

SpecBatch == InitBatch /\ [][NextBatch]_vars

\* ------------------------------------------------------------------------
\* Properties of extract_schema_from_json (SpecExtract)
\* ------------------------------------------------------------------------

Returned == extracted.done /\ ~extracted.res.raised

Items == IF json_data.attributes.t = "list" THEN json_data.attributes.items ELSE <<>>

Present(v) == v.t # "absent"

\* C1: tableName is schemaKey when schemaKey is present and
\* non-empty, otherwise name when name is present, otherwise "unknown_table"
C1_TableNameNonEmptySchemaKey ==
    Returned =>
        extracted.res.table_name =
            IF Present(json_data.schemaKey) /\ json_data.schemaKey # StrV(<<>>)
            THEN json_data.schemaKey
            ELSE IF Present(json_data.name) THEN json_data.name
            ELSE StrV(unknown_table)

MappedTags ==
    { <<"S","T","R","I","N","G">>, <<"I","N","T","E","G","E","R">>, <<"I","N","T">>,
      <<"T","I","M","E","S","T","A","M","P">>, <<"D","A","T","E","T","I","M","E">> }

TagType(tag) ==
    CASE tag = <<"S","T","R","I","N","G">> -> "string"
      [] tag = <<"I","N","T","E","G","E","R">> -> "integer"
      [] tag = <<"I","N","T">> -> "integer"
      [] tag = <<"T","I","M","E","S","T","A","M","P">> -> "timestamp"
      [] tag = <<"D","A","T","E","T","I","M","E">> -> "timestamp"

\* the tag of a descriptor field, upper-cased; absent counts as unmapped
UpperTag(v) == IF v.t = "str" THEN Upper(v.s) ELSE <<>>

ClaimedType(attr) ==
    IF UpperTag(attr.datatype) \in MappedTags THEN TagType(UpperTag(attr.datatype))
    ELSE IF UpperTag(attr.logicalDatatype) \in MappedTags
         THEN TagType(UpperTag(attr.logicalDatatype))
    ELSE "string"

\* the last descriptor of the attributes list named n
LastNamed(n) ==
    Items[CHOOSE i \in 1..Len(Items) :
              /\ Items[i].name = n
              /\ \A j \in (i + 1)..Len(Items) : Items[j].name # n]

OperationField == [name |-> StrV(S_operation), type |-> "operation"]

OperationIndexes ==
    {i \in 1..Len(extracted.res.fields) : extracted.res.fields[i].type = "operation"}

NoUsableAttribute == \A j \in 1..Len(Items) : ~Truthy(Get(Items[j].name, StrV(<<>>)))

KeyOperation == <<[name |-> StrV(S_key), type |-> "string"], OperationField>>

\* C3: exactly one field of type operation, named "operation", and
\* it is the last field; with no usable attribute the map is [key, operation]
C3_OperationLast ==
    Returned =>
        /\ Cardinality(OperationIndexes) = 1
        /\ extracted.res.fields[Len(extracted.res.fields)] = OperationField
        /\ NoUsableAttribute => extracted.res.fields = KeyOperation

\* C4: extract_schema_from_json never raises
C4_NeverRaises == extracted.done => ~extracted.res.raised

\* ------------------------------------------------------------------------
\* Properties of generate_random_transaction (SpecGen)
\* ------------------------------------------------------------------------

\* <base_dir>/<tableName>/<schemaKey>_<entityKey>_file<i>.json, i 1-based
ClaimedPath(base_dir, table_name, schema_key, entity_key, i) ==
    base_dir \o <<"/">> \o table_name \o <<"/">>
        \o Format(schema_key) \o <<"_">> \o Format(entity_key)
        \o <<"_","f","i","l","e">> \o IntToStr(i) \o <<".","j","s","o","n">>

\* C5: for every schema and count N >= 0 the call returns, for each table in
\* order, exactly N paths <base_dir>/<tableName>/<schemaKey>_<entityKey>_file<i>.json
\* with i = 1..N in order (paths compared after normalisation), each written
\* envelope holding exactly one record
C5_PathsPerTable ==
    gen_ret.done =>
        /\ ~gen_ret.raised
        /\ Len(gen_ret.files) = Len(gen_args.schema) * gen_args.count
        /\ \A t \in 1..Len(gen_args.schema) : \A i \in 1..gen_args.count :
              Normpath(gen_ret.files[(t - 1) * gen_args.count + i]) =
                  Normpath(ClaimedPath(gen_args.base_dir, gen_args.schema[t].name.s,
                                       gen_args.schema_key, gen_args.entity_key, i))
        /\ \A f \in fs.files : Len(f.data.repeatedMessages.records) = 1

\* ------------------------------------------------------------------------
\* Properties of the request handler (Spec, SpecBatch)
\* ------------------------------------------------------------------------

\* create_zip_archive returned for the request last served
ArchiveBuilt ==
    /\ pc = "idle"
    /\ req.kind \in {"single", "zip"}
    /\ \/ response.status = "success"
       \/ response.error = "name 'shutil' is not defined"

\* <tableName>/<filename>: path with the output root and its separator cut
RootRelative(path) == SubSeq(path, Len(output_dir) + 2, Len(path))

UnderOutputRoot(path) == StartsWith(path, output_dir \o <<"/">>)

\* C6: every generated path under the output root is stored in the archive
\* under its name relative to that root, <tableName>/<filename>
C6_ArchiveNamesRootRelative ==
    ArchiveBuilt =>
        /\ Len(archive) = Len(all_generated_files)
        /\ \A k \in 1..Len(all_generated_files) :
              UnderOutputRoot(all_generated_files[k])
                => archive[k].name = RootRelative(all_generated_files[k])

\* the .json documents the uploaded container holds
ContainedJsonNames == {m.name : m \in {x \in req.members : IsJsonName(x.name)}}

Processed == {outcomes[k].file : k \in 1..Len(outcomes)}

\* xs occurs in ys as a run of consecutive elements
IsRunOf(xs, ys) ==
    \E start \in 0..(Len(ys) - Len(xs)) :
        \A k \in 1..Len(xs) : ys[start + k] = xs[k]

\* C7: in a container request a failing document is skipped and nothing
\* surfaces; every contained .json document is walked, whatever the position
\* of a failing one, and a document that did not fail has its paths in the
\* list handed to archiving
C7_FailuresIsolated ==
    (req.kind = "zip" /\ pc = "walk") =>
        /\ response = NoResponse
        /\ ContainedJsonNames \subseteq (walk \cup Processed)
        /\ \A k \in 1..Len(outcomes) :
              ~outcomes[k].failed => IsRunOf(outcomes[k].files, all_generated_files)

\* C7 witness: the walk of a container is over, its first document failed and
\* the second produced files that are in the list
C7_Witness ==
    /\ req.kind = "zip"
    /\ pc = "walk"
    /\ walk = {}
    /\ Cardinality(ContainedJsonNames) = 2
    /\ Len(outcomes) = 2
    /\ outcomes[1].failed
    /\ ~outcomes[2].failed
    /\ outcomes[2].files # <<>>
    /\ all_generated_files = outcomes[2].files

\* C8: whatever came before, a container request processes exactly the .json
\* documents of its container
C8_OnlyContainedDocuments ==
    req.kind = "zip" => (walk \cup Processed) = ContainedJsonNames

WellFormedContents == {JsonFile(DocT), JsonFile(DocT2), JsonFile(DocU)}

\* C9: a request with a single well-formed document ends with the success
\* result
C9_SingleDocumentSucceeds ==
    (/\ pc = "idle"
     /\ req.kind = "single"
     /\ \A m \in req.members : m.content \in WellFormedContents
     /\ response # NoResponse)
      => response.status = "success"

\* C10: within a container request no path occurs twice in the list handed to
\* create_zip_archive
C10_NoDuplicatePaths ==
    req.kind = "zip" =>
        \A i, j \in 1..Len(all_generated_files) :
            i # j => all_generated_files[i] # all_generated_files[j]

====
